---- MODULE Spec2Model ----
(***************************************************************************)
(* Authentication core of Go-JWT-Auth-Demo: Login and RefreshToken of the  *)
(* auth service, the refresh-token service and repository, the last-login  *)
(* update of the user service, and the PostgreSQL tables they work on.     *)
(*                                                                         *)
(* Every request runs on its own goroutine.  Each SQL statement is one     *)
(* step; a gorm Transaction is BEGIN ... COMMIT/ROLLBACK on its own        *)
(* connection under PostgreSQL's default READ COMMITTED isolation.  Time   *)
(* is counted in hours.                                                    *)
(***************************************************************************)
EXTENDS Integers, Sequences, FiniteSets, TLC

\* ------------------------------------------------------------------ bounds
\* The clock runs from 0 to MaxTime hours.
MaxTime == 2
\* uuid.New() is called at most MaxTokens times.
MaxTokens == 3
\* time.Duration is an int64 count of nanoseconds.  Here a Duration is a
\* DurationBits-bit count of ticks, TicksPerHour of them to the hour, so that
\* a product of Durations wraps around as it does in the program.
DurationBits == 8
TicksPerHour == 2
\* The request goroutines; Sequential serves one request at a time.
Procs == {"g1", "g2"}
Sequential == {"g1"}

\* --------------------------------------------------------------- constants
\* The zero value of a Go string, and the NULL (or zero) of a time column.
EmptyString == ""
NullTime == -1
\* uuid.New().String(): the n-th call returns a string no other call returns.
UUIDConstant(n) == "uuid-0"
UUID(n) == "uuid-" \o ToString(n)
\* A refresh-token string that uuid.New() never produced.
ForeignToken == "not-a-stored-uuid"

\* Environment: what os.Getenv returns, strings of characters (numbers as
\* sequences of characters).  DotEnv has the names, issuer, audience, secret,
\* key paths and the 48 hours of the README's .env; a refresh token lives one
\* hour, so that it expires while the clock runs.  KeyFiles is the RSA pair
\* that generate-jwt-key.sh wrote last to the two files under ./keys.
VARIABLE env
DotEnv ==
    [JWT_SECRET |-> "a-string-secret-at-least-256-bits-long",
     JWT_EXPIRATION_HOUR |-> <<"4", "8">>,
     JWT_ISSUER |-> "your_jwt_issuer",
     JWT_AUDIENCE |-> "your_jwt_audience",
     JWT_REFRESH_TOKEN_EXPIRATION_HOUR |-> <<"1">>,
     JWT_PRIVATE_KEY_PATH |-> "./keys/privateKey.pem",
     JWT_PUBLIC_KEY_PATH |-> "./keys/publicKey.pem",
     JWT_ALGORITHM |-> "HS256",
     TOKEN_TYPE |-> "Bearer",
     KeyFiles |-> "rsa-pair-1"]
JWT_SECRET == env.JWT_SECRET
JWT_ALGORITHM == env.JWT_ALGORITHM
JWT_EXPIRATION_HOUR == env.JWT_EXPIRATION_HOUR
JWT_REFRESH_TOKEN_EXPIRATION_HOUR == env.JWT_REFRESH_TOKEN_EXPIRATION_HOUR
TOKEN_TYPE == env.TOKEN_TYPE
JWT_ISSUER == env.JWT_ISSUER
JWT_AUDIENCE == env.JWT_AUDIENCE
JWT_PRIVATE_KEY_PATH == env.JWT_PRIVATE_KEY_PATH
JWT_PUBLIC_KEY_PATH == env.JWT_PUBLIC_KEY_PATH
\* 24: the default number of hours of both expirations.
DefaultExpirationHours == 24

\* HTTP status codes of the response helpers.
StatusOK == 200
StatusBadRequest == 400
StatusUnauthorized == 401
StatusForbidden == 403
StatusInternalServerError == 500

\* --------------------------------------------------------------- seed data
\* The users of import.sql: id, username, email, password hash, roles.
UserIDs == {1, 2}
Username(id) == IF id = 1 THEN "admin" ELSE "userone"
Email(id) == IF id = 1 THEN "admin@mygmail.com" ELSE "userone@mygmail.com"
PasswordHash(id) == "$2a$10$eP5Sddi7Q5Jv6seppeF93.XsWGY8r4PnsqprWGb5AxsZ9TpwULIGa"
Roles(id) == IF id = 1 THEN <<"ROLE_ADMIN">> ELSE <<"ROLE_USER">>

\* The account flags of a user row; GoodStanding is what import.sql inserts.
GoodStanding ==
    [IsEnabled |-> TRUE, IsAccountNonExpired |-> TRUE, IsAccountNonLocked |-> TRUE,
     IsCredentialsNonExpired |-> TRUE, IsDeleted |-> FALSE]
\* One flag off at a time, as the README's "UPDATE users SET is_enabled = false".
FlagSettings ==
    {GoodStanding,
     [GoodStanding EXCEPT !.IsEnabled = FALSE],
     [GoodStanding EXCEPT !.IsAccountNonExpired = FALSE],
     [GoodStanding EXCEPT !.IsAccountNonLocked = FALSE],
     [GoodStanding EXCEPT !.IsCredentialsNonExpired = FALSE],
     [GoodStanding EXCEPT !.IsDeleted = TRUE]}

\* ------------------------------------------------------------ pure helpers
\* SQL lower(): the usernames a request may carry, folded to lower case.
Lower(s) ==
    CASE s = "ADMIN" -> "admin"
      [] s = "UserOne" -> "userone"
      [] s = "ROLE_ADMIN" -> "role_admin"
      [] s = "ROLE_USER" -> "role_user"
      [] OTHER -> s

\* bcrypt.CompareHashAndPassword: the seeded hash is the hash of "P@ssw0rd".
BcryptHash(password) ==
    IF password = "P@ssw0rd"
    THEN "$2a$10$eP5Sddi7Q5Jv6seppeF93.XsWGY8r4PnsqprWGb5AxsZ9TpwULIGa"
    ELSE "$2a$10$" \o password
CompareHashAndPasswordAlwaysNil(hash, password) == TRUE
CompareHashAndPassword(hash, password) == hash = BcryptHash(password)

\* strconv.Atoi on a string of characters: an optional sign, then digits.
DigitValue(c) ==
    CASE c = "0" -> 0 [] c = "1" -> 1 [] c = "2" -> 2 [] c = "3" -> 3
      [] c = "4" -> 4 [] c = "5" -> 5 [] c = "6" -> 6 [] c = "7" -> 7
      [] c = "8" -> 8 [] c = "9" -> 9 [] OTHER -> -1
RECURSIVE ParseDigits(_, _)
ParseDigits(s, acc) ==
    IF s = <<>> THEN acc
    ELSE IF DigitValue(Head(s)) < 0 \/ acc < 0 THEN -1
    ELSE ParseDigits(Tail(s), 10 * acc + DigitValue(Head(s)))
Atoi(s) ==
    LET signed == s # <<>> /\ Head(s) \in {"-", "+"}
        digits == IF signed THEN Tail(s) ELSE s
        n == IF digits = <<>> THEN -1 ELSE ParseDigits(digits, 0)
    IN  IF n < 0 THEN [err |-> TRUE, value |-> 0]
        ELSE [err |-> FALSE, value |-> IF signed /\ Head(s) = "-" THEN 0 - n ELSE n]

\* A product of Durations: the low DurationBits bits, as a signed number.
WrapDuration(n) ==
    LET m == 2 ^ DurationBits
        r == n % m
    IN  IF 2 * r >= m THEN r - m ELSE r
\* Go's integer division truncates toward zero.
Quo(a, b) == IF a >= 0 THEN a \div b ELSE 0 - ((0 - a) \div b)

\* GetRefreshTokenExpiration(now): now.Add(time.Hour * time.Duration(expHour)).
\* The clock counts hours, so a Duration's unit is TicksPerHour ticks.
GetRefreshTokenExpiration(t) ==
    LET expHour == Atoi(JWT_REFRESH_TOKEN_EXPIRATION_HOUR)
        hours == IF expHour.value <= 0 THEN DefaultExpirationHours ELSE expHour.value
    IN  IF expHour.err THEN t + DefaultExpirationHours
        ELSE t + Quo(WrapDuration(TicksPerHour * hours), TicksPerHour)

\* GetJWTExpiration(now): now + time.Duration(expHour)*time.Hour/time.Second.
\* The clock counts hours, so a Duration's unit is TicksPerHour ticks.
GetJWTExpiration(t) ==
    LET expHour == Atoi(JWT_EXPIRATION_HOUR)
        hours == IF expHour.value <= 0 THEN DefaultExpirationHours ELSE expHour.value
    IN  IF expHour.err THEN t + DefaultExpirationHours
        ELSE t + Quo(WrapDuration(hours * TicksPerHour), TicksPerHour)

\* VerifyExpirationDate(exp): ok is false for the zero time and once now is after exp.
VerifyExpirationDate(exp, t) ==
    IF exp = NullTime THEN FALSE
    ELSE IF t > exp THEN FALSE
    ELSE TRUE

\* LoginRequest.Validate: username required,min=3,max=20; password required,min=8,max=20.
ValidateLoginRequest(r) ==
    /\ Len(r.Username) >= 3 /\ Len(r.Username) <= 20
    /\ Len(r.Password) >= 8 /\ Len(r.Password) <= 20
\* RefreshTokenRequest.Validate: refreshToken required.
ValidateRefreshTokenRequest(r) == r.RefreshToken # EmptyString

\* ------------------------------------------------------------- token codec
\* The signing methods golang-jwt registers, by family.
SigningMethodHMAC == {"HS256", "HS384", "HS512"}
SigningMethodRSA == {"RS256", "RS384", "RS512"}
SigningMethods ==
    SigningMethodHMAC \cup SigningMethodRSA
        \cup {"PS256", "PS384", "PS512", "ES256", "ES384", "ES512", "EdDSA", "none"}

\* os.ReadFile and jwt.ParseRSA...KeyFromPEM: the two key files hold one RSA
\* pair.  A private key is named by its pair; so is the public key that
\* verifies it.
ReadFile(path) ==
    CASE path = "./keys/privateKey.pem" -> [err |-> FALSE, key |-> env.KeyFiles]
      [] path = "./keys/publicKey.pem" -> [err |-> FALSE, key |-> env.KeyFiles]
      [] OTHER -> [err |-> TRUE, key |-> EmptyString]
\* LoadPrivateKey / LoadPublicKey: the path from the environment, read anew.
LoadPrivateKey ==
    IF JWT_PRIVATE_KEY_PATH = EmptyString THEN [err |-> TRUE, key |-> EmptyString]
    ELSE ReadFile(JWT_PRIVATE_KEY_PATH)
LoadPublicKey ==
    IF JWT_PUBLIC_KEY_PATH = EmptyString THEN [err |-> TRUE, key |-> EmptyString]
    ELSE ReadFile(JWT_PUBLIC_KEY_PATH)

\* A token string: text that is no JWT (malformed), or a header naming alg, a
\* signature made with key, and the claims but those in omitted.
NoToken ==
    [malformed |-> TRUE, alg |-> EmptyString, key |-> EmptyString, omitted |-> {},
     sub |-> EmptyString, aud |-> EmptyString, iss |-> EmptyString, iat |-> 0, exp |-> 0,
     email |-> EmptyString, userid |-> 0, username |-> EmptyString, roles |-> <<>>]
\* jwt.MapClaims of GenerateJWTTokenWithHS256 / ...RS256 for user id at time t.
MapClaims(id, t) ==
    [NoToken EXCEPT !.malformed = FALSE,
                    !.sub = Username(id), !.aud = JWT_AUDIENCE, !.iss = JWT_ISSUER,
                    !.iat = t, !.exp = GetJWTExpiration(t), !.email = Email(id),
                    !.userid = id, !.username = Username(id), !.roles = Roles(id)]
GenerateJWTTokenWithHS256(id, t) ==
    [err |-> FALSE, token |-> [MapClaims(id, t) EXCEPT !.alg = "HS256", !.key = JWT_SECRET]]
GenerateJWTTokenWithRS256(id, t) ==
    IF LoadPrivateKey.err THEN [err |-> TRUE, token |-> NoToken]
    ELSE [err |-> FALSE,
          token |-> [MapClaims(id, t) EXCEPT !.alg = "RS256", !.key = LoadPrivateKey.key]]
\* GenerateJWTToken(user) at time t.
GenerateJWTToken(id, t) ==
    IF JWT_ALGORITHM = "HS256" THEN GenerateJWTTokenWithHS256(id, t)
    ELSE IF JWT_ALGORITHM = "RS256" THEN GenerateJWTTokenWithRS256(id, t)
    ELSE [err |-> TRUE, token |-> NoToken]

\* jwt.Parse(tokenStr, keyFunc) at time t, with no parser options, k being what
\* keyFunc returns for the token: the token
\* is well formed, its alg is a registered method, keyFunc gives a key, the
\* signature was made with that key by that method, and exp (when the token
\* has one) is after t.  Issuer, audience and iat are not looked at.
ValidatorChecksNothing(token, t) == TRUE
Validator(token, t) == "exp" \in token.omitted \/ t < token.exp
SignatureValid(token, k) ==
    /\ token.key = k.key
    /\ \/ token.alg \in SigningMethodHMAC /\ k.kind = "bytes"
       \/ token.alg \in SigningMethodRSA /\ k.kind = "rsa"
JwtParse(token, t, k) ==
    IF token.malformed THEN [err |-> TRUE, token |-> NoToken]
    ELSE IF token.alg \notin SigningMethods THEN [err |-> TRUE, token |-> NoToken]
    ELSE IF k.err THEN [err |-> TRUE, token |-> NoToken]
    ELSE IF ~SignatureValid(token, k) THEN [err |-> TRUE, token |-> NoToken]
    ELSE IF ~Validator(token, t) THEN [err |-> TRUE, token |-> NoToken]
    ELSE [err |-> FALSE, token |-> token]

NoKey == [err |-> TRUE, kind |-> EmptyString, key |-> EmptyString]
\* The key function of ParseJWTTokenWithHS256.
KeyFuncHS256(token) ==
    IF token.alg \notin SigningMethodHMAC THEN NoKey
    ELSE [err |-> FALSE, kind |-> "bytes", key |-> JWT_SECRET]
\* The key function of ParseJWTTokenWithRS256, which loaded the public key.
KeyFuncRS256Secret(token) ==
    IF token.alg \notin SigningMethodRSA THEN NoKey
    ELSE [err |-> FALSE, kind |-> "bytes", key |-> JWT_SECRET]
KeyFuncRS256(token) ==
    IF token.alg \notin SigningMethodRSA THEN NoKey
    ELSE [err |-> FALSE, kind |-> "rsa", key |-> LoadPublicKey.key]
ParseJWTTokenWithHS256(token, t) == JwtParse(token, t, KeyFuncHS256(token))
ParseJWTTokenWithRS256(token, t) ==
    IF LoadPublicKey.err THEN [err |-> TRUE, token |-> NoToken]
    ELSE JwtParse(token, t, KeyFuncRS256(token))
\* ParseJWTToken(tokenStr) at time t.
ParseJWTToken(token, t) ==
    IF JWT_ALGORITHM = "HS256" THEN ParseJWTTokenWithHS256(token, t)
    ELSE IF JWT_ALGORITHM = "RS256" THEN ParseJWTTokenWithRS256(token, t)
    ELSE [err |-> TRUE, token |-> NoToken]

\* ------------------------------------------------------------------- state
VARIABLES
    users,          \* table users: id -> the account flags and last_login
    refresh_token,  \* table refresh_token: the committed rows
    now,            \* time.Now(), in hours
    uuids,          \* the number of uuid.New() calls so far
    pc,             \* where each goroutine stands in its request
    op,             \* the request it serves: "login", "refresh" or ""
    req,            \* the request body it was given
    frame,          \* the locals of Login / RefreshToken
    tx,             \* the open transaction of CreateRefreshToken, per goroutine
    resp,           \* the HTTP response written, per goroutine
    latest,         \* per user: the token of the row committed last ("" if none)
    lastLoginToken, \* per user: the refresh token the last successful Login returned
    before,         \* per goroutine: the tables as they were when its request began
    c,              \* gin.Context of the request to a protected route in flight
    route,          \* the route it matched: its handlers chain and allowed roles
    tokenStr,       \* token codec: the token string last signed, if any
    jwtToken,       \* token codec: the result of the last parse, if any
    seen            \* the identity an earlier request with the same header was given

authVars == <<users, refresh_token, uuids, pc, op, req, frame, tx, resp,
              latest, lastLoginToken, before>>

NoRequest == [Username |-> EmptyString, Password |-> EmptyString, RefreshToken |-> EmptyString]
NoFrame == [userID |-> 0, tokenStr |-> <<>>, existingUser |-> <<>>, refreshTokenStr |-> EmptyString]
NoTx == [targets |-> {}, deleted |-> {}, inserted |-> {}]
NoResponse == [status |-> 0, accessToken |-> <<>>, refreshToken |-> EmptyString, error |-> EmptyString]
NoBefore ==
    [refresh_token |-> {}, lastLogin |-> NullTime, now |-> NullTime,
     previous |-> EmptyString, alone |-> FALSE]

gatewayVars == <<env, c, route, tokenStr, jwtToken, seen>>
vars == <<users, refresh_token, now, uuids, pc, op, req, frame, tx, resp,
          latest, lastLoginToken, before, env, c, route, tokenStr, jwtToken, seen>>

\* A request header: the characters of text, then the token string if any.
\* A token string holds no space.
NoHeader == [text |-> <<>>, token |-> <<>>]
\* gin.Context before a request: no handler entered, nothing written, and no
\* UserInformationMeta in the request context.
NoContext ==
    [stage |-> "idle", index |-> 0, Authorization |-> NoHeader, meta |-> <<>>,
     status |-> 0, handled |-> FALSE]
NoRoute == [handlers |-> <<>>, allowedRoles |-> <<>>]
NoParse == [done |-> FALSE, err |-> FALSE, token |-> NoToken]

\* No request to a protected route, and nothing signed or parsed.
InitGateway ==
    /\ c = NoContext
    /\ route = NoRoute
    /\ tokenStr = <<>>
    /\ jwtToken = NoParse
    /\ seen = <<>>

\* A goroutine is serving a request.
Busy(p) == pc[p] \notin {"idle", "done"}

InitStore ==
    /\ users \in [UserIDs -> {GoodStanding @@ [LastLogin |-> l] : l \in {NullTime, 0}}]
    /\ refresh_token = {}
    /\ now = 0
    /\ uuids = 0
    /\ pc = [p \in Procs |-> "idle"]
    /\ op = [p \in Procs |-> EmptyString]
    /\ req = [p \in Procs |-> NoRequest]
    /\ frame = [p \in Procs |-> NoFrame]
    /\ tx = [p \in Procs |-> NoTx]
    /\ resp = [p \in Procs |-> NoResponse]
    /\ latest = [u \in UserIDs |-> EmptyString]
    /\ lastLoginToken = [u \in UserIDs |-> EmptyString]
    /\ before = [p \in Procs |-> NoBefore]

\* The tables after import.sql (last_login set or not), the README's
\* environment, and no request.
Init ==
    /\ InitStore
    /\ env = DotEnv
    /\ InitGateway

\* ------------------------------------------------------------ repositories
\* GetUserByUsername: lower(username) = lower(?)
GetUserByUsername(username) == {id \in UserIDs : Lower(Username(id)) = Lower(username)}
\* GetRefreshTokenByToken: token = ?
GetRefreshTokenByTokenAnyRow(token) == refresh_token
GetRefreshTokenByToken(token) == {r \in refresh_token : r.Token = token}
\* GetRefreshTokenByUserID: user_id = ?
GetRefreshTokenByUserID(userID) == {r \in refresh_token : r.UserID = userID}

\* The rows other open transactions have deleted (and so hold locked).
LockedByOthers(p) == UNION {tx[q].deleted : q \in Procs \ {p}}
\* The rows other open transactions have inserted and not yet committed.
InsertedByOthers(p) == UNION {tx[q].inserted : q \in Procs \ {p}}

\* The unique columns of RefreshToken: token, and user_id.
UniqueColumnsTokenOnly(a, b) == a.Token = b.Token
UniqueColumns(a, b) == a.Token = b.Token \/ a.UserID = b.UserID

\* COMMIT of a transaction: its deletes and its inserts become visible together.
CommitKeepingDeleted(table, t) == table \cup t.inserted
Commit(table, t) == (table \ t.deleted) \cup t.inserted

\* ---------------------------------------------------------------- handlers
\* AuthHandler.Login / AuthHandler.RefreshToken: the status of the service's error.
HandlerStatusNotFound(err) ==
    CASE err = EmptyString -> StatusOK
      [] err = "validation" -> StatusBadRequest
      [] err = "record not found" -> 404
      [] OTHER -> StatusUnauthorized
HandlerStatus(err) ==
    CASE err = EmptyString -> StatusOK
      [] err = "validation" -> StatusBadRequest
      [] err = "record not found" -> StatusUnauthorized
      [] OTHER -> StatusUnauthorized

\* The service returned err: the handler answers, with no data.
Fail(p, err) ==
    /\ pc' = [pc EXCEPT ![p] = "done"]
    /\ resp' = [resp EXCEPT ![p] = [NoResponse EXCEPT !.status = HandlerStatus(err), !.error = err]]
    /\ frame' = [frame EXCEPT ![p] = [NoFrame EXCEPT !.userID = frame[p].userID]]
    /\ tx' = [tx EXCEPT ![p] = NoTx]

\* What a request remembers of the tables when it begins.
Remember(p, userID) ==
    before' = [q \in Procs |->
        IF q = p
        THEN IF \A o \in Procs \ {p} : ~Busy(o)
             THEN [refresh_token |-> refresh_token,
                   lastLogin |-> IF userID \in UserIDs THEN users[userID].LastLogin ELSE NullTime,
                   now |-> now,
                   previous |-> IF userID \in UserIDs THEN lastLoginToken[userID] ELSE EmptyString,
                   alone |-> TRUE]
             ELSE [NoBefore EXCEPT
                   !.previous = IF userID \in UserIDs THEN lastLoginToken[userID] ELSE EmptyString]
        ELSE IF Busy(q) THEN [NoBefore EXCEPT !.previous = before[q].previous] ELSE before[q]]

\* ------------------------------------------------------------------- Login
\* authService.Login up to the call of CreateRefreshToken.  The transaction it
\* opens hands its tx to nothing: every statement below runs on the pool.
LoginErrorNoAccountChecks(r) ==
    LET found == GetUserByUsername(r.Username)
        id == CHOOSE id \in found : TRUE
        generated == GenerateJWTToken(id, now)
    IN  IF ~ValidateLoginRequest(r) THEN "validation"
        ELSE IF found = {} THEN "record not found"
        ELSE IF ~CompareHashAndPassword(PasswordHash(id), r.Password) THEN "invalid credentials"
        ELSE IF generated.err THEN "failed to generate JWT token"
        ELSE IF ParseJWTToken(generated.token, now).err THEN "failed to parse JWT token"
        ELSE EmptyString
LoginError(r) ==
    LET found == GetUserByUsername(r.Username)
        id == CHOOSE id \in found : TRUE
        generated == GenerateJWTToken(id, now)
    IN  IF ~ValidateLoginRequest(r) THEN "validation"
        ELSE IF found = {} THEN "record not found"
        ELSE IF ~users[id].IsEnabled THEN "user is not enabled"
        ELSE IF ~users[id].IsAccountNonExpired THEN "user account is expired"
        ELSE IF ~users[id].IsAccountNonLocked THEN "user account is locked"
        ELSE IF ~users[id].IsCredentialsNonExpired THEN "user credentials are expired"
        ELSE IF users[id].IsDeleted THEN "user is deleted"
        ELSE IF ~CompareHashAndPassword(PasswordHash(id), r.Password) THEN "invalid credentials"
        ELSE IF generated.err THEN "failed to generate JWT token"
        ELSE IF ParseJWTToken(generated.token, now).err THEN "failed to parse JWT token"
        ELSE EmptyString

LoginRequests ==
    {[NoRequest EXCEPT !.Username = pair[1], !.Password = pair[2]] :
        pair \in {<<"ADMIN", "P@ssw0rd">>, <<"ADMIN", "invalid_password">>,
               <<"userone", "P@ssw0rd">>, <<"userone", "short">>,
               <<"nobody", "P@ssw0rd">>, <<"ab", "P@ssw0rd">>}}

Login(p, r) ==
    /\ pc[p] = "idle"
    /\ op' = [op EXCEPT ![p] = "login"]
    /\ req' = [req EXCEPT ![p] = r]
    /\ LET found == GetUserByUsername(r.Username)
           id == IF found = {} THEN 0 ELSE CHOOSE id \in found : TRUE
       IN  /\ Remember(p, id)
           /\ IF LoginError(r) # EmptyString
              THEN Fail(p, LoginError(r))
              ELSE /\ pc' = [pc EXCEPT ![p] = "crt_select"]
                   /\ frame' = [frame EXCEPT ![p] =
                          [NoFrame EXCEPT !.userID = id,
                                          !.tokenStr = <<GenerateJWTToken(id, now).token>>]]
                   /\ UNCHANGED <<resp, tx>>
    /\ UNCHANGED <<users, refresh_token, now, uuids, latest, lastLoginToken>>
    /\ UNCHANGED gatewayVars

\* ------------------------------------------------------------ RefreshToken
\* authService.RefreshToken up to the call of CreateRefreshToken.
RefreshTokenError(r) ==
    LET found == GetRefreshTokenByToken(r.RefreshToken)
        existingRefreshToken == CHOOSE x \in found : TRUE
        generated == GenerateJWTToken(existingRefreshToken.UserID, now)
    IN  IF ~ValidateRefreshTokenRequest(r) THEN "validation"
        ELSE IF found = {} THEN "record not found"
        ELSE IF ~VerifyExpirationDate(existingRefreshToken.ExpiryDate, now)
             THEN "refresh token is expired"
        ELSE IF existingRefreshToken.UserID \notin UserIDs THEN "record not found"
        ELSE IF generated.err THEN "failed to generate JWT token"
        ELSE IF ParseJWTToken(generated.token, now).err THEN "failed to parse JWT token"
        ELSE EmptyString

RefreshTokenRequests ==
    {[NoRequest EXCEPT !.RefreshToken = t] :
        t \in {EmptyString, ForeignToken} \cup {UUID(n) : n \in 1..uuids}}

RefreshToken(p, r) ==
    /\ pc[p] = "idle"
    /\ op' = [op EXCEPT ![p] = "refresh"]
    /\ req' = [req EXCEPT ![p] = r]
    /\ LET found == GetRefreshTokenByToken(r.RefreshToken)
           id == IF found = {} THEN 0 ELSE (CHOOSE x \in found : TRUE).UserID
       IN  /\ Remember(p, id)
           /\ IF RefreshTokenError(r) # EmptyString
              THEN Fail(p, RefreshTokenError(r))
              ELSE /\ pc' = [pc EXCEPT ![p] = "crt_select"]
                   /\ frame' = [frame EXCEPT ![p] =
                          [NoFrame EXCEPT !.userID = id,
                                          !.tokenStr = <<GenerateJWTToken(id, now).token>>]]
                   /\ UNCHANGED <<resp, tx>>
    /\ UNCHANGED <<users, refresh_token, now, uuids, latest, lastLoginToken>>
    /\ UNCHANGED gatewayVars

\* ------------------------------------------------------ CreateRefreshToken
\* BEGIN; GetRefreshTokenByUserID(tx, userID): the committed rows of the user.
CrtSelect(p) ==
    /\ pc[p] = "crt_select"
    /\ pc' = [pc EXCEPT ![p] =
          IF GetRefreshTokenByUserID(frame[p].userID) # {} THEN "crt_delete" ELSE "crt_insert"]
    /\ UNCHANGED <<users, refresh_token, now, uuids, op, req, frame, tx, resp,
                   latest, lastLoginToken, before>>
    /\ UNCHANGED gatewayVars

\* RemoveRefreshTokenByUserID(tx, userID): the DELETE takes its snapshot ...
CrtDelete(p) ==
    /\ pc[p] = "crt_delete"
    /\ tx' = [tx EXCEPT ![p].targets = GetRefreshTokenByUserID(frame[p].userID)]
    /\ pc' = [pc EXCEPT ![p] = "crt_delete_rows"]
    /\ UNCHANGED <<users, refresh_token, now, uuids, op, req, frame, resp,
                   latest, lastLoginToken, before>>
    /\ UNCHANGED gatewayVars

\* ... waits for the rows another transaction holds, and deletes those that
\* are still there.
CrtDeleteRows(p) ==
    /\ pc[p] = "crt_delete_rows"
    /\ tx[p].targets \cap LockedByOthers(p) = {}
    /\ tx' = [tx EXCEPT ![p].targets = {}, ![p].deleted = tx[p].targets \cap refresh_token]
    /\ pc' = [pc EXCEPT ![p] = "crt_insert"]
    /\ UNCHANGED <<users, refresh_token, now, uuids, op, req, frame, resp,
                   latest, lastLoginToken, before>>
    /\ UNCHANGED gatewayVars

\* uuid.New(); CreateRefreshToken(tx, refreshToken): the INSERT waits for an
\* open transaction that holds a conflicting row, and fails on a committed one.
CrtInsert(p) ==
    /\ pc[p] = "crt_insert"
    /\ uuids < MaxTokens
    /\ LET refreshToken == [Token |-> UUID(uuids + 1), UserID |-> frame[p].userID,
                            ExpiryDate |-> GetRefreshTokenExpiration(now)]
           conflicts(rows) == {x \in rows : UniqueColumns(x, refreshToken)}
       IN  /\ conflicts(InsertedByOthers(p)) = {}
           /\ conflicts(refresh_token \cap LockedByOthers(p)) = {}
           /\ uuids' = uuids + 1
           /\ IF conflicts(refresh_token \ tx[p].deleted) # {}
              THEN /\ Fail(p, "failed to create refresh token")
              ELSE /\ tx' = [tx EXCEPT ![p].inserted = {refreshToken}]
                   /\ pc' = [pc EXCEPT ![p] = "crt_commit"]
                   /\ UNCHANGED <<resp, frame>>
    /\ UNCHANGED <<users, refresh_token, now, op, req, latest, lastLoginToken, before>>
    /\ UNCHANGED gatewayVars

\* COMMIT; refreshTokenStr = jwtRefreshToken.Token
CrtCommit(p) ==
    /\ pc[p] = "crt_commit"
    /\ refresh_token' = Commit(refresh_token, tx[p])
    /\ LET created == CHOOSE x \in tx[p].inserted : TRUE
       IN  /\ frame' = [frame EXCEPT ![p].refreshTokenStr = created.Token]
           /\ latest' = [latest EXCEPT ![created.UserID] = created.Token]
    /\ tx' = [tx EXCEPT ![p] = NoTx]
    /\ pc' = [pc EXCEPT ![p] = "ull_read"]
    /\ UNCHANGED <<users, now, uuids, op, req, resp, lastLoginToken, before>>
    /\ UNCHANGED gatewayVars

\* --------------------------------------------------------- UpdateLastLogin
\* time.Now(); BEGIN; GetUserByID(db, id); *existingUser.LastLogin = lastLogin.
\* The assignment through a nil LastLogin panics; gin's Recovery answers 500.
UllRead(p) ==
    /\ pc[p] = "ull_read"
    /\ IF users[frame[p].userID].LastLogin = NullTime
       THEN /\ pc' = [pc EXCEPT ![p] = "done"]
            /\ resp' = [resp EXCEPT ![p] =
                   [NoResponse EXCEPT !.status = StatusInternalServerError, !.error = "panic"]]
            /\ frame' = [frame EXCEPT ![p] = [NoFrame EXCEPT !.userID = frame[p].userID]]
       ELSE /\ pc' = [pc EXCEPT ![p] = "ull_save"]
            /\ frame' = [frame EXCEPT ![p].existingUser =
                   <<[users[frame[p].userID] EXCEPT !.LastLogin = now]>>]
            /\ UNCHANGED resp
    /\ UNCHANGED <<users, refresh_token, now, uuids, op, req, tx, latest, lastLoginToken, before>>
    /\ UNCHANGED gatewayVars

\* UpdateUser(tx, existingUser): Save writes every column of the row it was
\* given; COMMIT.  The write may fail (dbError), and then Login / RefreshToken
\* return "failed to update last login time".  Otherwise they return the tokens.
UllSaveBestEffort(p, dbError) ==
    /\ pc[p] = "ull_save"
    /\ pc' = [pc EXCEPT ![p] = "done"]
    /\ users' = IF dbError THEN users
                ELSE [users EXCEPT ![frame[p].userID] = frame[p].existingUser[1]]
    /\ resp' = [resp EXCEPT ![p] =
           [status |-> HandlerStatus(EmptyString), accessToken |-> frame[p].tokenStr,
            refreshToken |-> frame[p].refreshTokenStr, error |-> EmptyString]]
    /\ lastLoginToken' =
           IF op[p] = "login"
           THEN [lastLoginToken EXCEPT ![frame[p].userID] = frame[p].refreshTokenStr]
           ELSE lastLoginToken
    /\ frame' = [frame EXCEPT ![p] = [NoFrame EXCEPT !.userID = frame[p].userID]]
    /\ UNCHANGED <<refresh_token, now, uuids, op, req, tx, latest, before>>
    /\ UNCHANGED gatewayVars
UllSave(p, dbError) ==
    /\ pc[p] = "ull_save"
    /\ pc' = [pc EXCEPT ![p] = "done"]
    /\ IF dbError
       THEN /\ resp' = [resp EXCEPT ![p] =
                   [NoResponse EXCEPT !.status = HandlerStatus("failed to update last login time"),
                                      !.error = "failed to update last login time"]]
            /\ UNCHANGED <<users, lastLoginToken>>
       ELSE /\ users' = [users EXCEPT ![frame[p].userID] = frame[p].existingUser[1]]
            /\ resp' = [resp EXCEPT ![p] =
                   [status |-> HandlerStatus(EmptyString), accessToken |-> frame[p].tokenStr,
                    refreshToken |-> frame[p].refreshTokenStr, error |-> EmptyString]]
            /\ lastLoginToken' =
                   IF op[p] = "login"
                   THEN [lastLoginToken EXCEPT ![frame[p].userID] = frame[p].refreshTokenStr]
                   ELSE lastLoginToken
    /\ frame' = [frame EXCEPT ![p] = [NoFrame EXCEPT !.userID = frame[p].userID]]
    /\ UNCHANGED <<refresh_token, now, uuids, op, req, tx, latest, before>>
    /\ UNCHANGED gatewayVars

\* The response has been sent; the goroutine ends.
Return(p) ==
    /\ pc[p] = "done"
    /\ pc' = [pc EXCEPT ![p] = "idle"]
    /\ op' = [op EXCEPT ![p] = EmptyString]
    /\ req' = [req EXCEPT ![p] = NoRequest]
    /\ frame' = [frame EXCEPT ![p] = NoFrame]
    /\ resp' = [resp EXCEPT ![p] = NoResponse]
    /\ before' = [before EXCEPT ![p] = NoBefore]
    /\ UNCHANGED <<users, refresh_token, now, uuids, tx, latest, lastLoginToken>>
    /\ UNCHANGED gatewayVars

\* ------------------------------------------------------------- environment
\* An hour passes.
Tick ==
    /\ now < MaxTime
    /\ now' = now + 1
    /\ UNCHANGED <<users, refresh_token, uuids, pc, op, req, frame, tx, resp,
                   latest, lastLoginToken, before>>
    /\ UNCHANGED gatewayVars

\* An operator changes the flags of account 2, as the README's scenario does:
\* UPDATE users SET is_enabled = false WHERE id = 2.
UpdateUserFlags(id, flags) ==
    /\ id = 2
    /\ flags # [k \in DOMAIN flags |-> users[id][k]]
    /\ users' = [users EXCEPT ![id] = flags @@ [LastLogin |-> users[id].LastLogin]]
    /\ UNCHANGED <<refresh_token, now, uuids, pc, op, req, frame, tx, resp,
                   latest, lastLoginToken, before>>
    /\ UNCHANGED gatewayVars

\* An operator runs generate-jwt-key.sh again while the process runs: the two
\* key files now hold a new RSA pair.
GenerateJwtKey ==
    /\ env.KeyFiles = DotEnv.KeyFiles
    /\ env' = [env EXCEPT !.KeyFiles = "rsa-pair-2"]
    /\ UNCHANGED <<c, route, tokenStr, jwtToken, seen, now>>
    /\ UNCHANGED authVars
\* ------------------------------------------------------ protected routes
\* strings.HasPrefix / strings.TrimPrefix, on the characters of a header.
HasPrefixAlways(str, prefix) == TRUE
HasPrefix(str, prefix) ==
    Len(str) >= Len(prefix) /\ SubSeq(str, 1, Len(prefix)) = prefix
TrimPrefix(str, prefix) ==
    IF HasPrefix(str, prefix) THEN SubSeq(str, Len(prefix) + 1, Len(str)) ELSE str

\* The key function of JwtValidation: the secret for HS256, and for every
\* other method the public key, if the method is an RSA one.
KeyFuncJwtValidation(token) ==
    IF token.alg = "HS256" THEN [err |-> FALSE, kind |-> "bytes", key |-> JWT_SECRET]
    ELSE IF LoadPublicKey.err THEN NoKey
    ELSE IF token.alg \notin SigningMethodRSA THEN NoKey
    ELSE [err |-> FALSE, kind |-> "rsa", key |-> LoadPublicKey.key]

\* GetInt64Claim(claims, "userid") and GetStringSliceClaim(claims, "roles").
GetInt64Claim(token) == IF "userid" \in token.omitted THEN 0 ELSE token.userid
GetStringSliceClaim(token) == IF "roles" \in token.omitted THEN <<>> ELSE token.roles
\* metacontext.UserInformationMeta built from the claims.
UserInformationMetaFromStore(token) ==
    [UserID |-> GetInt64Claim(token), Username |-> token.username, Email |-> token.email,
     Roles |-> IF GetInt64Claim(token) \in UserIDs /\ users[GetInt64Claim(token)].IsEnabled
               THEN GetStringSliceClaim(token) ELSE <<>>]
UserInformationMeta(token) ==
    [UserID |-> GetInt64Claim(token), Username |-> token.username, Email |-> token.email,
     Roles |-> GetStringSliceClaim(token)]
\* metacontext.ExtractUserInformationMeta(ctx)
ExtractUserInformationMetaZero(ctx) ==
    [ok |-> TRUE,
     meta |-> [UserID |-> 0, Username |-> EmptyString, Email |-> EmptyString, Roles |-> <<>>]]
ExtractUserInformationMeta(ctx) ==
    IF ctx = <<>>
    THEN [ok |-> FALSE,
          meta |-> [UserID |-> 0, Username |-> EmptyString, Email |-> EmptyString,
                    Roles |-> <<>>]]
    ELSE [ok |-> TRUE, meta |-> ctx[1]]

\* c.Abort() after a response helper wrote status: no later handler runs.
Abort(status) == c' = [c EXCEPT !.stage = "done", !.status = status]
\* c.Next(): the next handler of the chain is entered.
NextHandler(meta) ==
    c' = [c EXCEPT !.meta = meta, !.index = c.index + 1,
                   !.stage = IF c.index + 1 > Len(route.handlers) THEN "done"
                             ELSE route.handlers[c.index + 1]]

\* The router hands a request with header h to the handlers chain of route r.
ServeHTTP(h, r) ==
    /\ c.stage \in {"idle", "done"}
    /\ route' = r
    /\ c' = [NoContext EXCEPT !.stage = r.handlers[1], !.index = 1, !.Authorization = h]
    /\ seen' = <<>>
    /\ UNCHANGED <<env, tokenStr, jwtToken, now>>
    /\ UNCHANGED authVars

\* The client sends the header of its last request again, to route r.
ServeHTTPAgain(r) ==
    /\ c.stage = "done"
    /\ route' = r
    /\ c' = [NoContext EXCEPT !.stage = r.handlers[1], !.index = 1,
                              !.Authorization = c.Authorization]
    /\ seen' = IF c.meta # <<>> THEN c.meta ELSE seen
    /\ UNCHANGED <<env, tokenStr, jwtToken, now>>
    /\ UNCHANGED authVars

\* JwtValidation: the header, the prefix, the token string, jwt.Parse, and the
\* identity put in the request context.  A claim asserted to be a string that
\* is not there panics, and gin's Recovery answers 500.
JwtValidation ==
    /\ c.stage = "JwtValidation"
    /\ LET authHeader == c.Authorization
           tokenPrefix == <<TOKEN_TYPE, " ">>
           rest == TrimPrefix(authHeader.text, tokenPrefix)
           parsed == IF rest # <<>> \/ authHeader.token = <<>>
                     THEN [err |-> TRUE, token |-> NoToken]
                     ELSE JwtParse(authHeader.token[1], now,
                                   KeyFuncJwtValidation(authHeader.token[1]))
       IN  IF authHeader = NoHeader
           THEN Abort(StatusUnauthorized)
           ELSE IF ~HasPrefix(authHeader.text, tokenPrefix)
           THEN Abort(StatusUnauthorized)
           ELSE IF rest = <<>> /\ authHeader.token = <<>>
           THEN Abort(StatusUnauthorized)
           ELSE IF parsed.err
           THEN Abort(StatusUnauthorized)
           ELSE IF parsed.token.omitted \cap {"username", "email"} # {}
           THEN Abort(StatusInternalServerError)
           ELSE NextHandler(<<UserInformationMeta(parsed.token)>>)
    /\ UNCHANGED <<env, route, tokenStr, jwtToken, seen, now>>
    /\ UNCHANGED authVars

\* role == allowed
RoleEqualFold(role, allowed) == Lower(role) = Lower(allowed)
RoleEqual(role, allowed) == role = allowed

\* RoleBasedAccessControl(allowedRoles...)
RoleBasedAccessControl ==
    /\ c.stage = "RoleBasedAccessControl"
    /\ LET allowedRoles == route.allowedRoles
           extracted == ExtractUserInformationMeta(c.meta)
           userRoles == extracted.meta.Roles
       IN  IF Len(allowedRoles) = 0 THEN NextHandler(c.meta)
           ELSE IF ~extracted.ok THEN Abort(StatusInternalServerError)
           ELSE IF Len(userRoles) = 0 THEN Abort(StatusForbidden)
           ELSE IF \E i \in 1..Len(userRoles), j \in 1..Len(allowedRoles) :
                       RoleEqual(userRoles[i], allowedRoles[j])
           THEN NextHandler(c.meta)
           ELSE Abort(StatusForbidden)
    /\ UNCHANGED <<env, route, tokenStr, jwtToken, seen, now>>
    /\ UNCHANGED authVars

\* The handler of the route runs and answers.
Handler ==
    /\ c.stage = "handler"
    /\ c' = [c EXCEPT !.stage = "done", !.status = StatusOK, !.handled = TRUE]
    /\ UNCHANGED <<env, route, tokenStr, jwtToken, seen, now>>
    /\ UNCHANGED authVars

\* The token strings a client may present: those either algorithm signs for a
\* seeded user at hour 0 with the deployment's key material, each also as
\* another deployment or a holder of the key material would have made it, with
\* a signature by a foreign key, or lacking a claim; and forgeries.
SignedTokens ==
    {GenerateJWTTokenWithHS256(id, 0).token : id \in UserIDs}
        \cup {GenerateJWTTokenWithRS256(id, 0).token : id \in UserIDs}
Variants(token) ==
    {token,
     [token EXCEPT !.iss = "another_issuer"],
     [token EXCEPT !.aud = "another_audience"],
     [token EXCEPT !.key = "attacker-key"],
     [token EXCEPT !.roles = <<"role_admin">>],
     [token EXCEPT !.roles = <<>>],
     [token EXCEPT !.roles = <<"ROLE_ADMIN", "ROLE_USER">>]}
        \cup {[token EXCEPT !.omitted = {claim}] :
                 claim \in {"exp", "username", "email", "userid", "roles"}}
ForgedTokens ==
    LET token == GenerateJWTTokenWithHS256(1, 0).token
    IN  {NoToken,
         [token EXCEPT !.alg = "none", !.key = EmptyString],
         [token EXCEPT !.alg = "HS384"],
         [token EXCEPT !.key = ReadFile("./keys/publicKey.pem").key]}
ClientTokens == UNION {Variants(token) : token \in SignedTokens} \cup ForgedTokens

\* The Authorization headers of requests: none, "Bearer " and a token string,
\* "Bearer " alone, and a token string after another prefix.
Headers ==
    {NoHeader, [text |-> <<"Bearer", " ">>, token |-> <<>>]}
        \cup {[text |-> <<"Bearer", " ">>, token |-> <<token>>] : token \in ClientTokens}
        \cup {[text |-> text, token |-> <<GenerateJWTTokenWithHS256(1, 0).token>>] :
                 text \in {<<"Bearer">>, <<"bearer", " ">>, <<"Basic", " ">>,
                           <<"Bearer", " ", " ">>}}

\* Handlers chains: JwtValidation of the /api/v1 group, then the access control
\* and the handler of the route; and the access control on its own.  The
\* allowed roles are those of routes.go, and none.
Routes ==
    {[handlers |-> handlers, allowedRoles |-> allowedRoles] :
        handlers \in {<<"JwtValidation", "RoleBasedAccessControl", "handler">>,
                      <<"RoleBasedAccessControl", "handler">>},
        allowedRoles \in {<<>>, <<"ROLE_ADMIN">>, <<"ROLE_ADMIN", "ROLE_USER">>}}

\* ------------------------------------------------------------- token codec
\* GenerateJWTToken(user) is called for user id.
IssueToken(id) ==
    /\ tokenStr' = IF GenerateJWTToken(id, now).err THEN <<>>
                   ELSE <<GenerateJWTToken(id, now).token>>
    /\ jwtToken' = NoParse
    /\ UNCHANGED <<env, c, route, seen, now>>
    /\ UNCHANGED authVars

\* A deployment with this key material that is configured for alg signs.
SignToken(alg, id) ==
    /\ LET generated == IF alg = "HS256" THEN GenerateJWTTokenWithHS256(id, now)
                        ELSE GenerateJWTTokenWithRS256(id, now)
       IN  tokenStr' = IF generated.err THEN <<>> ELSE <<generated.token>>
    /\ jwtToken' = NoParse
    /\ UNCHANGED <<env, c, route, seen, now>>
    /\ UNCHANGED authVars

\* ParseJWTToken(tokenStr) is called on the token string signed last.
VerifyToken ==
    /\ tokenStr # <<>>
    /\ jwtToken' = [done |-> TRUE, err |-> ParseJWTToken(tokenStr[1], now).err,
                    token |-> ParseJWTToken(tokenStr[1], now).token]
    /\ UNCHANGED <<env, c, route, tokenStr, seen, now>>
    /\ UNCHANGED authVars

\* One request at a time, hour after hour, the accounts in good standing.
Next ==
    \/ \E p \in Sequential, r \in LoginRequests : Login(p, r)
    \/ \E p \in Sequential, r \in RefreshTokenRequests : RefreshToken(p, r)
    \/ \E p \in Sequential : CrtSelect(p)
    \/ \E p \in Sequential : CrtDelete(p)
    \/ \E p \in Sequential : CrtDeleteRows(p)
    \/ \E p \in Sequential : CrtInsert(p)
    \/ \E p \in Sequential : CrtCommit(p)
    \/ \E p \in Sequential : UllRead(p)
    \/ \E p \in Sequential, dbError \in BOOLEAN : UllSave(p, dbError)
    \/ \E p \in Sequential : Return(p)
    \/ Tick

Spec == Init /\ [][Next]_vars

\* One request at a time, within the hour, while an operator changes account 2.
NextAccounts ==
    \/ \E p \in Sequential, r \in LoginRequests : Login(p, r)
    \/ \E p \in Sequential, r \in RefreshTokenRequests : RefreshToken(p, r)
    \/ \E p \in Sequential : CrtSelect(p)
    \/ \E p \in Sequential : CrtDelete(p)
    \/ \E p \in Sequential : CrtDeleteRows(p)
    \/ \E p \in Sequential : CrtInsert(p)
    \/ \E p \in Sequential : CrtCommit(p)
    \/ \E p \in Sequential : UllRead(p)
    \/ \E p \in Sequential, dbError \in BOOLEAN : UllSave(p, dbError)
    \/ \E p \in Sequential : Return(p)
    \/ \E id \in UserIDs, flags \in FlagSettings : UpdateUserFlags(id, flags)

SpecAccounts == Init /\ [][NextAccounts]_vars

\* Requests in parallel for one account, within the hour and with the accounts
\* as they are: the logins that reach CreateRefreshToken, and every refresh
\* with a token.
NextConcurrent ==
    \/ \E p \in Procs,
          r \in {x \in LoginRequests : x.Username = "ADMIN" /\ LoginError(x) = EmptyString} :
           Login(p, r)
    \/ \E p \in Procs, r \in {x \in RefreshTokenRequests : ValidateRefreshTokenRequest(x)} :
           RefreshToken(p, r)
    \/ \E p \in Procs : CrtSelect(p)
    \/ \E p \in Procs : CrtDelete(p)
    \/ \E p \in Procs : CrtDeleteRows(p)
    \/ \E p \in Procs : CrtInsert(p)
    \/ \E p \in Procs : CrtCommit(p)
    \/ \E p \in Procs : UllRead(p)
    \/ \E p \in Procs, dbError \in BOOLEAN : UllSave(p, dbError)
    \/ \E p \in Procs : Return(p)

SpecConcurrent == Init /\ [][NextConcurrent]_vars

\* The configurations of the token codec: the supported algorithms and one
\* that is not, and expiration hours that are absent, positive, zero, negative,
\* no number, and beyond what a Duration holds.
ExpirationHours ==
    {<<>>, <<"4", "8">>, <<"1">>, <<"0">>, <<"-", "5">>, <<"a", "b", "c">>,
     <<"6", "4">>, <<"1", "3", "0">>}
CodecEnvs ==
    {[DotEnv EXCEPT !.JWT_ALGORITHM = alg, !.JWT_EXPIRATION_HOUR = hours] :
        alg \in {"HS256", "RS256", "ES256"}, hours \in ExpirationHours}
InitCodec ==
    /\ InitStore
    /\ \A id \in UserIDs : users[id].LastLogin = 0
    /\ env \in CodecEnvs
    /\ InitGateway
\* Tokens are signed and parsed, hour after hour.
NextCodec ==
    \/ \E id \in UserIDs : IssueToken(id)
    \/ \E alg \in {"HS256", "RS256"}, id \in UserIDs : SignToken(alg, id)
    \/ VerifyToken
    \/ Tick

SpecCodec == InitCodec /\ [][NextCodec]_vars

\* The deployments of the protected routes: either algorithm, access tokens
\* that live one hour.
GatewayEnvs ==
    {[DotEnv EXCEPT !.JWT_ALGORITHM = alg, !.JWT_EXPIRATION_HOUR = <<"1">>] :
        alg \in {"HS256", "RS256"}}
InitRoutes ==
    /\ InitStore
    /\ \A id \in UserIDs : users[id].LastLogin = 0
    /\ env \in GatewayEnvs
    /\ InitGateway
\* Requests to protected routes, one at a time, hour after hour.
NextRoutes ==
    \/ \E h \in Headers, r \in Routes : ServeHTTP(h, r)
    \/ JwtValidation
    \/ RoleBasedAccessControl
    \/ Handler
    \/ Tick

SpecRoutes == InitRoutes /\ [][NextRoutes]_vars

\* A client presents one header again and again, hour after hour, while an
\* operator changes account 2.
NextReplay ==
    \/ \E h \in Headers, r \in Routes : c.stage = "idle" /\ ServeHTTP(h, r)
    \/ \E r \in Routes : ServeHTTPAgain(r)
    \/ JwtValidation
    \/ RoleBasedAccessControl
    \/ Handler
    \/ \E id \in UserIDs, flags \in FlagSettings : UpdateUserFlags(id, flags)
    \/ Tick

SpecReplay == InitRoutes /\ [][NextReplay]_vars

\* The configurations of the refresh token's life: hours that are absent,
\* positive, zero, negative, no number, and beyond what a Duration holds, each
\* with a short and a long life of the access token.
RefreshEnvs ==
    {[DotEnv EXCEPT !.JWT_REFRESH_TOKEN_EXPIRATION_HOUR = hours,
                    !.JWT_EXPIRATION_HOUR = access] :
        hours \in ExpirationHours, access \in {<<"1">>, <<"4", "8">>}}
InitRefresh ==
    /\ InitStore
    /\ \A id \in UserIDs : users[id].LastLogin = 0
    /\ env \in RefreshEnvs
    /\ InitGateway
\* The administrator logs in and refreshes, one request at a time, hour after
\* hour.
NextRefresh ==
    \/ \E p \in Sequential,
          r \in {x \in LoginRequests : x.Username = "ADMIN" /\ ValidateLoginRequest(x)} :
           Login(p, r)
    \/ \E p \in Sequential, r \in {x \in RefreshTokenRequests : ValidateRefreshTokenRequest(x)} :
           RefreshToken(p, r)
    \/ \E p \in Sequential : CrtSelect(p)
    \/ \E p \in Sequential : CrtDelete(p)
    \/ \E p \in Sequential : CrtDeleteRows(p)
    \/ \E p \in Sequential : CrtInsert(p)
    \/ \E p \in Sequential : CrtCommit(p)
    \/ \E p \in Sequential : UllRead(p)
    \/ \E p \in Sequential, dbError \in BOOLEAN : UllSave(p, dbError)
    \/ \E p \in Sequential : Return(p)
    \/ Tick

SpecRefresh == InitRefresh /\ [][NextRefresh]_vars
\* A client presents one header again and again, hour after hour, while an
\* operator replaces the key files.
NextRotate ==
    \/ \E h \in Headers, r \in Routes : c.stage = "idle" /\ ServeHTTP(h, r)
    \/ \E r \in Routes : ServeHTTPAgain(r)
    \/ JwtValidation
    \/ RoleBasedAccessControl
    \/ Handler
    \/ GenerateJwtKey
    \/ Tick

SpecRotate == InitRoutes /\ [][NextRotate]_vars
\* The route table of SetupRouter under /api/v1: JwtValidation of the group,
\* then the access control of the route with its roles, then the handler.
SetupRouterWithoutGroupMiddleware ==
    {[handlers |-> <<"RoleBasedAccessControl", "handler">>, allowedRoles |-> allowedRoles] :
        allowedRoles \in {<<"ROLE_ADMIN", "ROLE_USER">>, <<"ROLE_ADMIN">>}}
SetupRouter ==
    {[handlers |-> <<"JwtValidation", "RoleBasedAccessControl", "handler">>,
      allowedRoles |-> allowedRoles] :
        allowedRoles \in {<<"ROLE_ADMIN", "ROLE_USER">>, <<"ROLE_ADMIN">>}}
\* Requests to the routes of the route table, one at a time, hour after hour.
NextConfigured ==
    \/ \E h \in Headers, r \in SetupRouter : ServeHTTP(h, r)
    \/ JwtValidation
    \/ RoleBasedAccessControl
    \/ Handler
    \/ Tick

SpecConfigured == InitRoutes /\ [][NextConfigured]_vars
\* ------------------------------------------------------------- properties
\* The refresh tokens CreateRefreshToken has generated so far.
Issued == {UUID(n) : n \in 1..uuids}
\* The rows a finished request found for its user when it began.
RowsBefore(p, userID) == {r \in before[p].refresh_token : r.UserID = userID}
\* Every flag of the account is as the seed data sets it.
InGoodStanding(u) == [k \in DOMAIN GoodStanding |-> u[k]] = GoodStanding
\* The password the seeded hash was generated from.
SeededPassword == "P@ssw0rd"

\* C1: in every reachable state of the refresh token store, each user has at
\* most one refresh token record.
AtMostOneRefreshTokenPerUser ==
    \A u \in UserIDs : Cardinality(GetRefreshTokenByUserID(u)) <= 1

\* A request that found a record of its user has succeeded, and the user has a
\* record.
ReplacedRefreshToken ==
    \E p \in Procs :
        /\ pc[p] = "done"
        /\ resp[p].status = StatusOK
        /\ RowsBefore(p, frame[p].userID) # {}
        /\ GetRefreshTokenByUserID(frame[p].userID) # {}

\* C2: when a Login succeeds for a user whose earlier Login succeeded, the
\* store holds exactly one refresh token record for the user afterwards, and
\* its token is not the refresh token the earlier Login returned.
SecondLoginReplacesToken ==
    \A p \in Procs :
        (/\ pc[p] = "done"
         /\ op[p] = "login"
         /\ resp[p].status = StatusOK
         /\ before[p].previous # EmptyString)
        => /\ Cardinality(GetRefreshTokenByUserID(frame[p].userID)) = 1
           /\ \A r \in GetRefreshTokenByUserID(frame[p].userID) :
                  /\ r.Token # before[p].previous
                  /\ r.Token = resp[p].refreshToken

\* A second Login of a user has succeeded.
SecondLoginSucceeded ==
    \E p \in Procs :
        /\ pc[p] = "done"
        /\ op[p] = "login"
        /\ resp[p].status = StatusOK
        /\ before[p].previous # EmptyString

\* C3: a Refresh that presents a refresh token issued earlier, which is not the
\* token most recently issued to any user, is rejected as Unauthorized; so a
\* Refresh that goes on presents the most recently issued token of its user.
OnlyLatestTokenRedeemable ==
    [][\A p \in Procs :
        (/\ pc[p] = "idle"
         /\ op'[p] = "refresh"
         /\ req'[p].RefreshToken \in Issued
         /\ req'[p].RefreshToken \notin {latest[u] : u \in UserIDs})
        => /\ pc'[p] = "done"
           /\ resp'[p].status = StatusUnauthorized
           /\ resp'[p].accessToken = <<>>
           /\ resp'[p].refreshToken = EmptyString]_vars

\* A Refresh with a superseded refresh token has been rejected.
SupersededTokenRejected ==
    \E p \in Procs :
        /\ pc[p] = "done"
        /\ op[p] = "refresh"
        /\ req[p].RefreshToken \in Issued
        /\ req[p].RefreshToken \notin {latest[u] : u \in UserIDs}
        /\ resp[p].status = StatusUnauthorized

\* C4: a Login that returns an error leaves the refresh token store and the
\* user's last-login time as they were when it began.
LoginIsAtomic ==
    \A p \in Procs :
        (/\ pc[p] = "done"
         /\ op[p] = "login"
         /\ resp[p].status = StatusUnauthorized
         /\ before[p].alone)
        => /\ refresh_token = before[p].refresh_token
           /\ frame[p].userID \in UserIDs
                  => users[frame[p].userID].LastLogin = before[p].lastLogin

\* C5: a Refresh that returns an error leaves the presented refresh token a
\* live record, and the user's last-login time as it was.
RefreshIsAtomic ==
    \A p \in Procs :
        (/\ pc[p] = "done"
         /\ op[p] = "refresh"
         /\ resp[p].status = StatusUnauthorized
         /\ before[p].alone
         /\ \E r \in before[p].refresh_token : r.Token = req[p].RefreshToken)
        => /\ \E r \in refresh_token : r.Token = req[p].RefreshToken
           /\ frame[p].userID \in UserIDs
                  => users[frame[p].userID].LastLogin = before[p].lastLogin

\* C6: when two calls of CreateRefreshToken for one user overlap, no committed
\* state has two records for the user, and once both requests have finished
\* the user has exactly one record.
ConcurrentCreateLeavesOne ==
    /\ \A u \in UserIDs : Cardinality(GetRefreshTokenByUserID(u)) < 2
    /\ \A p \in Procs : \A q \in Procs \ {p} :
           (/\ pc[p] = "done" /\ pc[q] = "done"
            /\ ~before[p].alone /\ ~before[q].alone
            /\ frame[p].userID \in UserIDs
            /\ frame[q].userID = frame[p].userID)
           => Cardinality(GetRefreshTokenByUserID(frame[p].userID)) = 1

\* Two overlapping requests of one user have finished, and the INSERT of one
\* of them failed.
OverlappingCreatesFinished ==
    \E p \in Procs : \E q \in Procs \ {p} :
        /\ pc[p] = "done" /\ pc[q] = "done"
        /\ ~before[p].alone /\ ~before[q].alone
        /\ frame[p].userID \in UserIDs
        /\ frame[q].userID = frame[p].userID
        /\ resp[p].status = StatusOK
        /\ resp[q].error = "failed to create refresh token"

\* C7: a Login with an existing username and a password that is not the
\* user's issues no access token and no refresh token and leaves the refresh
\* token store as it was; it is answered Unauthorized when the request passes
\* validation, and BadRequest when it does not.
WrongPasswordRejected ==
    [][\A p \in Procs :
        (/\ pc[p] = "idle"
         /\ op'[p] = "login"
         /\ GetUserByUsername(req'[p].Username) # {}
         /\ req'[p].Password # SeededPassword)
        => /\ pc'[p] = "done"
           /\ resp'[p].status = IF ValidateLoginRequest(req'[p])
                                THEN StatusUnauthorized ELSE StatusBadRequest
           /\ resp'[p].accessToken = <<>>
           /\ resp'[p].refreshToken = EmptyString
           /\ refresh_token' = refresh_token]_vars

\* C7 as stated: every Login with an existing username and a password that is
\* not the user's is answered Unauthorized.
WrongPasswordUnauthorized ==
    [][\A p \in Procs :
        (/\ pc[p] = "idle"
         /\ op'[p] = "login"
         /\ GetUserByUsername(req'[p].Username) # {}
         /\ req'[p].Password # SeededPassword)
        => /\ pc'[p] = "done"
           /\ resp'[p].status = StatusUnauthorized]_vars

\* A Login with a wrong password for a user who has a refresh token record has
\* been answered.
WrongPasswordAnswered ==
    \E p \in Procs :
        /\ pc[p] = "done"
        /\ op[p] = "login"
        /\ ValidateLoginRequest(req[p])
        /\ req[p].Password # SeededPassword
        /\ \E id \in GetUserByUsername(req[p].Username) : GetRefreshTokenByUserID(id) # {}

ExpiredTokenRegenerated ==
    \A p \in Procs :
        (/\ pc[p] = "done"
         /\ op[p] = "refresh"
         /\ \E r \in before[p].refresh_token :
                r.Token = req[p].RefreshToken /\ r.ExpiryDate < before[p].now)
        => /\ resp[p].status # StatusUnauthorized
           /\ \A r \in refresh_token : r.Token # req[p].RefreshToken

\* C10: a Login for an account that is disabled, expired, locked, deleted or
\* whose credentials have expired never goes on to create a refresh token,
\* whatever the password: it is answered at once with no token and the refresh
\* token store stays as it was; the answer is Unauthorized when the request
\* passes validation, and BadRequest when it does not.
BadStandingLoginRejected ==
    [][\A p \in Procs :
        (/\ pc[p] = "idle"
         /\ op'[p] = "login"
         /\ \E id \in GetUserByUsername(req'[p].Username) : ~InGoodStanding(users[id]))
        => /\ pc'[p] = "done"
           /\ resp'[p].status = IF ValidateLoginRequest(req'[p])
                                THEN StatusUnauthorized ELSE StatusBadRequest
           /\ resp'[p].accessToken = <<>>
           /\ resp'[p].refreshToken = EmptyString
           /\ refresh_token' = refresh_token]_vars

\* C10 as stated: every Login for such an account is answered Unauthorized,
\* whatever the password.
BadStandingLoginUnauthorized ==
    [][\A p \in Procs :
        (/\ pc[p] = "idle"
         /\ op'[p] = "login"
         /\ \E id \in GetUserByUsername(req'[p].Username) : ~InGoodStanding(users[id]))
        => /\ pc'[p] = "done"
           /\ resp'[p].status = StatusUnauthorized
           /\ refresh_token' = refresh_token]_vars

\* A Login with the right password for an account that is not in good standing
\* has been answered.
BadStandingLoginAnswered ==
    \E p \in Procs :
        /\ pc[p] = "done"
        /\ op[p] = "login"
        /\ req[p].Password = SeededPassword
        /\ resp[p].error \in {"user is not enabled", "user account is expired",
                              "user account is locked", "user credentials are expired",
                              "user is deleted"}
        /\ \E id \in GetUserByUsername(req[p].Username) : ~InGoodStanding(users[id])

\* The identity JwtValidation would attach for an access token is that of the
\* stored user id.
DecodesTo(accessToken, id) ==
    /\ accessToken # <<>>
    /\ LET meta == UserInformationMeta(accessToken[1])
       IN  /\ meta.UserID = id
           /\ meta.Username = Username(id)
           /\ {meta.Roles[i] : i \in 1..Len(meta.Roles)}
                  = {Roles(id)[i] : i \in 1..Len(Roles(id))}

\* C11: a Login of a stored user in good standing with the user's password
\* succeeds, unless the storage fails, and the access token it returns decodes
\* to the user's id, username and roles.
MatchingLoginSucceeds ==
    \A p \in Procs : \A id \in UserIDs :
        (/\ pc[p] = "done"
         /\ op[p] = "login"
         /\ ValidateLoginRequest(req[p])
         /\ id \in GetUserByUsername(req[p].Username)
         /\ InGoodStanding(users[id])
         /\ req[p].Password = SeededPassword
         /\ resp[p].error # "failed to update last login time")
        => /\ resp[p].status = StatusOK
           /\ DecodesTo(resp[p].accessToken, id)

NoAlgorithmDowngrade ==
    c.meta # <<>> => c.Authorization.token[1].alg = JWT_ALGORITHM

\* C14: the handler of a route behind JwtValidation runs only for a token whose
\* iss and aud are the deployment's JWT_ISSUER and JWT_AUDIENCE.
ForeignIssuerOrAudienceRejected ==
    (c.handled /\ route.handlers[1] = "JwtValidation")
    => /\ c.Authorization.token[1].iss = JWT_ISSUER
       /\ c.Authorization.token[1].aud = JWT_AUDIENCE

\* The Authorization header h is TOKEN_TYPE, one space, and a token string
\* that jwt.Parse accepts at time t with the key function of JwtValidation.
BearerTokenVerifies(h, t) ==
    /\ h.text = <<TOKEN_TYPE, " ">>
    /\ h.token # <<>>
    /\ ~JwtParse(h.token[1], t, KeyFuncJwtValidation(h.token[1])).err

\* C15: JwtValidation passes a request on only if its Authorization header is
\* there, is TOKEN_TYPE, a space and a non-empty rest, and the rest verifies;
\* in every other case it answers 401 and aborts, so that no later handler
\* runs; and the handler of a route behind JwtValidation runs only for a
\* request JwtValidation passed on.
OnlyVerifiedBearerPasses ==
    [][/\ (c.stage = "JwtValidation" /\ c' # c)
          => /\ c'.stage # "done" => BearerTokenVerifies(c.Authorization, now)
             /\ ~BearerTokenVerifies(c.Authorization, now)
                    => /\ c'.stage = "done" /\ c'.status = StatusUnauthorized
                       /\ ~c'.handled /\ c'.meta = <<>>
       /\ (c'.handled /\ ~c.handled /\ route.handlers[1] = "JwtValidation")
          => /\ c.meta # <<>>
             /\ c.Authorization.text = <<TOKEN_TYPE, " ">>
             /\ c.Authorization.token # <<>>]_vars
\* A request without the exact prefix was answered 401, and none of its later
\* handlers ran.
WrongPrefixUnauthorized ==
    /\ c.stage = "done" /\ c.status = StatusUnauthorized /\ ~c.handled
    /\ route.handlers[1] = "JwtValidation"
    /\ c.Authorization.text = <<"bearer", " ">>
    /\ c.Authorization.token # <<>>

\* C16: JwtValidation passes a token on only while now is before its exp: for
\* a token whose exp has passed it answers 401 (not 403) and aborts, whatever
\* the token's roles and the route's allowed roles are.
ExpiredTokenUnauthorized ==
    [][(/\ c.stage = "JwtValidation" /\ c' # c
        /\ c.Authorization.token # <<>>
        /\ ~c.Authorization.token[1].malformed
        /\ "exp" \notin c.Authorization.token[1].omitted)
       => /\ c'.stage # "done" => now < c.Authorization.token[1].exp
          /\ now >= c.Authorization.token[1].exp
                 => /\ c'.stage = "done" /\ c'.status = StatusUnauthorized
                    /\ c'.status # StatusForbidden
                    /\ ~c'.handled /\ c'.meta = <<>>]_vars
\* The token GenerateJWTToken signed for the administrator was presented after
\* its exp on a route that allows ROLE_ADMIN, and answered 401.
ExpiredAdminTokenAnswered ==
    /\ c.stage = "done" /\ c.status = StatusUnauthorized /\ ~c.handled
    /\ route.handlers[1] = "JwtValidation" /\ route.allowedRoles = <<"ROLE_ADMIN">>
    /\ c.Authorization.text = <<TOKEN_TYPE, " ">>
    /\ c.Authorization.token # <<>>
    /\ c.Authorization.token[1] \in SignedTokens
    /\ c.Authorization.token[1].alg = JWT_ALGORITHM
    /\ c.Authorization.token[1].roles = <<"ROLE_ADMIN">>
    /\ now >= c.Authorization.token[1].exp

\* The roles of a sequence, as a set.
RoleSet(roles) == {roles[i] : i \in 1..Len(roles)}

\* C17: for a request that carries an identity, RoleBasedAccessControl passes
\* on to the handler if and only if the allowed roles are empty or one of the
\* identity's roles is, character for character, one of them; otherwise it
\* answers 403 and the handler does not run.
AccessIffRoleShared ==
    [][(c.stage = "RoleBasedAccessControl" /\ c' # c /\ c.meta # <<>>)
       => LET shared == RoleSet(c.meta[1].Roles) \cap RoleSet(route.allowedRoles)
              allowed == route.allowedRoles = <<>> \/ shared # {}
          IN  /\ allowed <=> c'.stage = "handler"
              /\ ~allowed => /\ c'.stage = "done" /\ c'.status = StatusForbidden
                             /\ ~c'.handled]_vars
\* The allowed roles {ROLE_ADMIN} denied an identity with the roles {ROLE_USER}.
UserDeniedOnAdminRoute ==
    /\ c.stage = "done" /\ c.status = StatusForbidden /\ ~c.handled
    /\ route.allowedRoles = <<"ROLE_ADMIN">>
    /\ c.meta # <<>>
    /\ c.meta[1].Roles = <<"ROLE_USER">>

\* C18: for a request that carries no identity, RoleBasedAccessControl with
\* allowed roles answers 500 and aborts, so that the handler does not run, and
\* RoleBasedAccessControl without allowed roles passes on to the handler.
NoIdentityFailsClosed ==
    [][(c.stage = "RoleBasedAccessControl" /\ c' # c /\ c.meta = <<>>)
       => /\ route.allowedRoles # <<>>
                 => /\ c'.stage = "done" /\ c'.status = StatusInternalServerError
                    /\ ~c'.handled
          /\ route.allowedRoles = <<>> => c'.stage = "handler"]_vars
\* A route that has allowed roles and no JwtValidation before its
\* RoleBasedAccessControl answered 500.
MisconfiguredRouteAnswered ==
    /\ c.stage = "done" /\ c.status = StatusInternalServerError /\ ~c.handled
    /\ route.handlers[1] = "RoleBasedAccessControl"
    /\ route.allowedRoles # <<>>
    /\ c.meta = <<>>

\* C19: JwtValidation leaves the users and the refresh tokens as they are, and
\* a token that it verified once gives, verified again before its exp, the
\* identity it gave the first time, whatever has happened to the tables since.
VerificationStateless ==
    [][(c.stage = "JwtValidation" /\ c' # c)
       => /\ users' = users
          /\ refresh_token' = refresh_token
          /\ (/\ seen # <<>>
              /\ \/ "exp" \in c.Authorization.token[1].omitted
                 \/ now < c.Authorization.token[1].exp)
             => c'.meta = seen]_vars
\* A token was verified, the account it names was disabled, and the token was
\* verified again: with the same identity.
VerifiedAgainAfterUpdate ==
    /\ seen # <<>>
    /\ c.meta = seen
    /\ \E id \in UserIDs : seen[1].UserID = id /\ ~users[id].IsEnabled

\* The hours an access token lives: JWT_EXPIRATION_HOUR when it is a positive
\* integer, and 24 when it is absent, no integer, zero or negative.
ConfiguredTTL ==
    IF ~Atoi(JWT_EXPIRATION_HOUR).err /\ Atoi(JWT_EXPIRATION_HOUR).value > 0
    THEN Atoi(JWT_EXPIRATION_HOUR).value
    ELSE DefaultExpirationHours

\* C20: every token GenerateJWTToken's functions sign has exp = iat + TTL
\* hours, and so exp after iat.
ExpirationIsIssuedAtPlusTTL ==
    tokenStr # <<>>
    => /\ tokenStr[1].iat <= now
       /\ tokenStr[1].exp = tokenStr[1].iat + ConfiguredTTL
       /\ tokenStr[1].exp > tokenStr[1].iat

\* The hours a refresh token lives: JWT_REFRESH_TOKEN_EXPIRATION_HOUR when it
\* is a positive integer, and 24 otherwise.
ConfiguredRefreshTTL ==
    IF /\ ~Atoi(JWT_REFRESH_TOKEN_EXPIRATION_HOUR).err
       /\ Atoi(JWT_REFRESH_TOKEN_EXPIRATION_HOUR).value > 0
    THEN Atoi(JWT_REFRESH_TOKEN_EXPIRATION_HOUR).value
    ELSE DefaultExpirationHours

\* C21: every row CreateRefreshToken inserts has expiry_date = the time of its
\* creation + the refresh TTL hours, whatever JWT_EXPIRATION_HOUR is.
RefreshExpiryIsCreationPlusTTL ==
    [][\A p \in Procs : \A row \in tx'[p].inserted \ tx[p].inserted :
           row.ExpiryDate = now + ConfiguredRefreshTTL]_vars

\* C22: a Login or RefreshToken that a failing database statement ended is
\* answered 500.
StorageFailureInternalError ==
    \A p \in Procs :
        (pc[p] = "done" /\ resp[p].error = "failed to update last login time")
        => resp[p].status = StatusInternalServerError

\* C23: a Login or RefreshToken that answers 200 has written last_login of
\* its user, with a time of its own; one whose UpdateLastLogin failed answers
\* an error and neither an access token nor a refresh token.
LastLoginIsStrictStep ==
    [][\A p \in Procs :
        (pc[p] # "done" /\ pc'[p] = "done")
        => /\ resp'[p].status = StatusOK
                  => /\ pc[p] = "ull_save"
                     /\ users'[frame[p].userID].LastLogin # NullTime
                     /\ users'[frame[p].userID].LastLogin >= before[p].now
                     /\ users'[frame[p].userID].LastLogin <= now
           /\ resp'[p].error \in {"failed to update last login time", "panic"}
                  => /\ resp'[p].status # StatusOK
                     /\ users' = users
                     /\ resp'[p].accessToken = <<>>
                     /\ resp'[p].refreshToken = EmptyString]_vars
\* A RefreshToken answered 200 an hour or more after last_login was last
\* written, and last_login is later than it was.
RefreshUpdatedLastLogin ==
    \E p \in Procs :
        /\ pc[p] = "done" /\ op[p] = "refresh" /\ resp[p].status = StatusOK
        /\ before[p].alone
        /\ users[frame[p].userID].LastLogin > before[p].lastLogin

\* C24: the public key JwtValidation verifies with is the one of the key
\* files as they were when the process started: a complete, unexpired token
\* that the private key of that pair signed is passed on, whatever the key
\* files hold by now.
KeyMaterialFixed ==
    [][(/\ c.stage = "JwtValidation" /\ c' # c
        /\ c.Authorization.text = <<TOKEN_TYPE, " ">>
        /\ c.Authorization.token # <<>>
        /\ ~c.Authorization.token[1].malformed
        /\ c.Authorization.token[1].alg = "RS256"
        /\ c.Authorization.token[1].key = DotEnv.KeyFiles
        /\ c.Authorization.token[1].omitted \cap {"username", "email"} = {}
        /\ \/ "exp" \in c.Authorization.token[1].omitted
           \/ now < c.Authorization.token[1].exp)
       => c'.meta # <<>>]_vars

\* C25: a request JwtValidation passes on carries the userid, username, email
\* and roles claims of its token as its identity, and a token that verifies
\* but lacks the userid, username or email claim is answered 401 and not
\* passed on.
IdentityFromClaimsOrUnauthorized ==
    [][(c.stage = "JwtValidation" /\ c' # c /\ c.Authorization.token # <<>>)
       => LET token == c.Authorization.token[1]
          IN  /\ c'.meta # <<>>
                     => /\ c'.meta[1].UserID = token.userid
                        /\ c'.meta[1].Username = token.username
                        /\ c'.meta[1].Email = token.email
                        /\ c'.meta[1].Roles = token.roles
              /\ token.omitted \cap {"userid", "username", "email"} # {}
                     => /\ c'.meta = <<>>
                        /\ c'.stage = "done" /\ c'.status = StatusUnauthorized]_vars

\* C26: a RefreshToken request with the refresh token of a user that is
\* disabled, expired, locked, credentials-expired or deleted is rejected: it
\* does not get as far as generating tokens.
RefreshRejectsBadStanding ==
    [][\A p \in Procs : \A row \in refresh_token :
        (/\ pc[p] = "idle" /\ pc'[p] # "idle" /\ op'[p] = "refresh"
         /\ req'[p].RefreshToken = row.Token
         /\ ~InGoodStanding(users[row.UserID]))
        => /\ pc'[p] = "done"
           /\ resp'[p].status = StatusUnauthorized]_vars

\* C27: of the RefreshToken calls that present one refresh token, at most one
\* answers 200.
RefreshTokenRedeemedOnce ==
    \A p, q \in Procs :
        (/\ p # q
         /\ pc[p] = "done" /\ op[p] = "refresh" /\ resp[p].status = StatusOK
         /\ pc[q] = "done" /\ op[q] = "refresh"
         /\ req[q].RefreshToken = req[p].RefreshToken)
        => resp[q].status # StatusOK

\* C28: the refresh token a Login or RefreshToken returns with 200 is, at the
\* moment the call returns, the row of its user in refresh_token.
ReturnedRefreshTokenIsLive ==
    [][\A p \in Procs :
        (pc[p] # "done" /\ pc'[p] = "done" /\ resp'[p].status = StatusOK)
        => \E row \in refresh_token' :
               /\ row.Token = resp'[p].refreshToken
               /\ row.UserID = frame[p].userID]_vars

\* C29: the first Login of a user whose last_login is NULL, with the user's
\* password, answers 200 and sets last_login, unless the UPDATE itself fails.
FirstLoginSetsLastLogin ==
    \A p \in Procs :
        (/\ pc[p] = "done" /\ op[p] = "login"
         /\ before[p].alone /\ before[p].lastLogin = NullTime
         /\ frame[p].userID \in UserIDs
         /\ InGoodStanding(users[frame[p].userID])
         /\ req[p].Password = SeededPassword
         /\ resp[p].error # "failed to update last login time")
        => /\ resp[p].status = StatusOK
           /\ users[frame[p].userID].LastLogin # NullTime

====
